---- MODULE Spec2Model ----
(***************************************************************************)
(* Model of fast_matrix_market::write_body_threads                         *)
(* (include/fast_matrix_market/write_body_threads.hpp).                    *)
(*                                                                         *)
(* One coordinating thread creates chunks sequentially from the formatter, *)
(* submits them to a thread pool, keeps their futures in a FIFO queue and  *)
(* writes the results to the output stream in creation order.  The pool's  *)
(* workers run concurrently with the coordinator, so the coordinator is    *)
(* modelled statement by statement (pc) and the workers as separate        *)
(* actions that interleave with it.                                        *)
(***************************************************************************)
EXTENDS Naturals, Integers, Sequences, FiniteSets, TLC

\* ---- bounds of the model ----
MaxChunks == 6
MaxThreads == 2

\* ---- program constant: the 3 of "3 * pool.get_thread_count()" ----
InflightFactor == 3

VARIABLES
    num_threads,  \* options.num_threads
    N,            \* number of chunks the formatter will produce
    osThrows,     \* os.exceptions() includes badbit/failbit
    pc,           \* position of the coordinating thread
    batch_i,      \* loop counter of the priming loop
    formatter,    \* number of chunks the formatter has created so far
    futures,      \* std::queue<std::future<std::string>>, as chunk ids
    status,       \* state of the task of each chunk in the pool
    chunk,        \* local std::string chunk (0: not set), as a chunk id
    sink,         \* chunks written to os, in the order they were written
    osState,      \* "good" or "bad": stream state of os
    lastSrc,      \* last call made on the formatter and its outcome
    misuse,       \* next_chunk() has been called while has_next() was false
    entered,      \* the body of the while loop has been entered
    raised,       \* number of exceptions that left write_body_threads
    error,        \* what the exception was: "none", "task", "io"
    polled,       \* future last passed to is_ready (0: none yet)
    polledReady,  \* what that is_ready call returned
    submits,      \* per chunk, number of pool.submit calls made for it
    retrieved     \* per chunk, number of get() calls made on its future

vars == <<num_threads, N, osThrows, pc, batch_i, formatter, futures, status,
          chunk, sink, osState, lastSrc, misuse, entered, raised, error,
          polled, polledReady, submits, retrieved>>

ChunkIds == 1..MaxChunks

\* The first n chunk ids, in creation order.
Ids(n) == [i \in 1..n |-> i]

\* ---- the collaborators ----

\* BS::thread_pool_light::get_thread_count(): 0 is treated as 1.
get_thread_count == IF num_threads = 0 THEN 1 ELSE num_threads

\* Variant: the window is computed from the option, not from the pool.
inflight_from_option == InflightFactor * num_threads

\* const int inflight_count = 3 * (int)pool.get_thread_count();
inflight_count == InflightFactor * get_thread_count

\* formatter.has_next()
has_next == formatter < N

\* formatter.next_chunk(options): the id of the chunk it creates.
next_chunk == formatter + 1

\* is_ready(future): the task has finished, with bytes or with an exception.
is_ready(h) == status[h] \in {"ok", "err"}

\* Variant: the new future goes to the front (a stack, not a queue).
push_front(q, h) == <<h>> \o q

\* futures.push(f)
push(q, h) == Append(q, h)

\* futures.front()
front(q) == Head(q)

\* Variant: the newest future is removed instead of the oldest.
pop_back(q) == SubSeq(q, 1, Len(q) - 1)

\* futures.pop()
pop(q) == Tail(q)

\* Variant: the loop stops one future early.
empty_le1(q) == Len(q) <= 1

\* futures.empty()
empty(q) == Len(q) = 0

\* futures.push(pool.submit(formatter.next_chunk(options)));
SubmitNext ==
    /\ misuse' = (misuse \/ ~has_next)
    /\ formatter' = next_chunk
    /\ lastSrc' = "next"
    /\ status' = [status EXCEPT ![next_chunk] = "queued"]
    /\ submits' = [submits EXCEPT ![next_chunk] = @ + 1]
    /\ futures' = push(futures, next_chunk)

\* ---- initial state: the arguments of the call, nothing done yet ----
Init ==
    /\ num_threads \in 0..MaxThreads
    /\ N \in 0..MaxChunks
    /\ osThrows \in BOOLEAN
    /\ pc = "prime_check"
    /\ batch_i = 0
    /\ formatter = 0
    /\ futures = <<>>
    /\ status = [i \in ChunkIds |-> "none"]
    /\ chunk = 0
    /\ sink = <<>>
    /\ osState = "good"
    /\ lastSrc = "none"
    /\ misuse = FALSE
    /\ entered = FALSE
    /\ raised = 0
    /\ error = "none"
    /\ polled = 0
    /\ polledReady = FALSE
    /\ submits = [i \in ChunkIds |-> 0]
    /\ retrieved = [i \in ChunkIds |-> 0]

\* ---- the coordinating thread ----

\* Variant: the bound of the priming loop is off by one (<=).
PrimeCheckLe ==
    /\ pc = "prime_check"
    /\ IF batch_i <= inflight_count
       THEN /\ lastSrc' = (IF has_next THEN "true" ELSE "false")
            /\ pc' = (IF has_next THEN "prime_submit" ELSE "loop_check")
       ELSE /\ lastSrc' = lastSrc
            /\ pc' = "loop_check"
    /\ UNCHANGED <<num_threads, N, osThrows, batch_i, formatter, futures,
                   status, chunk, sink, osState, misuse, entered, raised,
                   error>>
    /\ UNCHANGED <<polled, polledReady, submits, retrieved>>

\* Variant: the first chunk is submitted without asking has_next().
PrimeCheckFirstUnasked ==
    /\ pc = "prime_check"
    /\ IF batch_i < inflight_count /\ batch_i > 0
       THEN /\ lastSrc' = (IF has_next THEN "true" ELSE "false")
            /\ pc' = (IF has_next THEN "prime_submit" ELSE "loop_check")
       ELSE /\ lastSrc' = lastSrc
            /\ pc' = (IF batch_i = 0 THEN "prime_submit" ELSE "loop_check")
    /\ UNCHANGED <<num_threads, N, osThrows, batch_i, formatter, futures,
                   status, chunk, sink, osState, misuse, entered, raised,
                   error>>
    /\ UNCHANGED <<polled, polledReady, submits, retrieved>>

\* Variant: the priming loop stops one chunk short of the window.
PrimeCheckShort ==
    /\ pc = "prime_check"
    /\ IF batch_i < inflight_count - 1
       THEN /\ lastSrc' = (IF has_next THEN "true" ELSE "false")
            /\ pc' = (IF has_next THEN "prime_submit" ELSE "loop_check")
       ELSE /\ lastSrc' = lastSrc
            /\ pc' = "loop_check"
    /\ UNCHANGED <<num_threads, N, osThrows, batch_i, formatter, futures,
                   status, chunk, sink, osState, misuse, entered, raised,
                   error>>
    /\ UNCHANGED <<polled, polledReady, submits, retrieved>>

\* for (...; batch_i < inflight_count && formatter.has_next(); ...)
PrimeCheck ==
    /\ pc = "prime_check"
    /\ IF batch_i < inflight_count
       THEN /\ lastSrc' = (IF has_next THEN "true" ELSE "false")
            /\ pc' = (IF has_next THEN "prime_submit" ELSE "loop_check")
       ELSE /\ lastSrc' = lastSrc
            /\ pc' = "loop_check"
    /\ UNCHANGED <<num_threads, N, osThrows, batch_i, formatter, futures,
                   status, chunk, sink, osState, misuse, entered, raised,
                   error>>
    /\ UNCHANGED <<polled, polledReady, submits, retrieved>>

\* Variant: batch_i is not incremented, only has_next() ends the priming.
PrimeSubmitNoInc ==
    /\ pc = "prime_submit"
    /\ SubmitNext
    /\ pc' = "prime_check"
    /\ UNCHANGED <<num_threads, N, osThrows, batch_i, chunk, sink, osState,
                   entered, raised, error>>
    /\ UNCHANGED <<polled, polledReady, retrieved>>

\* futures.push(pool.submit(formatter.next_chunk(options))); ++batch_i
PrimeSubmit ==
    /\ pc = "prime_submit"
    /\ SubmitNext
    /\ batch_i' = batch_i + 1
    /\ pc' = "prime_check"
    /\ UNCHANGED <<num_threads, N, osThrows, chunk, sink, osState, entered,
                   raised, error>>
    /\ UNCHANGED <<polled, polledReady, retrieved>>

\* while (!futures.empty())
LoopCheck ==
    /\ pc = "loop_check"
    /\ pc' = (IF empty(futures) THEN "done" ELSE "is_ready")
    /\ UNCHANGED <<num_threads, N, osThrows, batch_i, formatter, futures,
                   status, chunk, sink, osState, lastSrc, misuse, entered,
                   raised, error>>
    /\ UNCHANGED <<polled, polledReady, submits, retrieved>>

\* Variant: the front future is retrieved whether or not it is ready.
IsReadyAlways ==
    /\ pc = "is_ready"
    /\ entered' = TRUE
    /\ pc' = "refill"
    /\ UNCHANGED <<num_threads, N, osThrows, batch_i, formatter, futures,
                   status, chunk, sink, osState, lastSrc, misuse, raised,
                   error>>
    /\ polled' = front(futures)
    /\ polledReady' = is_ready(front(futures))
    /\ UNCHANGED <<submits, retrieved>>

\* Variant: a future that holds an exception is taken as not ready.
IsReadyOkOnly ==
    /\ pc = "is_ready"
    /\ entered' = TRUE
    /\ pc' = (IF status[front(futures)] = "ok" THEN "refill" ELSE "yield")
    /\ UNCHANGED <<num_threads, N, osThrows, batch_i, formatter, futures,
                   status, chunk, sink, osState, lastSrc, misuse, raised,
                   error>>
    /\ polled' = front(futures)
    /\ polledReady' = (status[front(futures)] = "ok")
    /\ UNCHANGED <<submits, retrieved>>

\* if (is_ready(futures.front()))
IsReady ==
    /\ pc = "is_ready"
    /\ entered' = TRUE
    /\ pc' = (IF is_ready(front(futures)) THEN "refill" ELSE "yield")
    /\ UNCHANGED <<num_threads, N, osThrows, batch_i, formatter, futures,
                   status, chunk, sink, osState, lastSrc, misuse, raised,
                   error>>
    /\ polled' = front(futures)
    /\ polledReady' = is_ready(front(futures))
    /\ UNCHANGED <<submits, retrieved>>

\* Variant: no replacement is started for a finished chunk.
RefillCheckSkip ==
    /\ pc = "refill"
    /\ pc' = "get"
    /\ UNCHANGED <<num_threads, N, osThrows, batch_i, formatter, futures,
                   status, chunk, sink, osState, lastSrc, misuse, entered,
                   raised, error>>
    /\ UNCHANGED <<polled, polledReady, submits, retrieved>>

\* Variant: the replacement is started without asking has_next().
RefillCheckUnasked ==
    /\ pc = "refill"
    /\ pc' = (IF formatter < MaxChunks THEN "refill_submit" ELSE "get")
    /\ UNCHANGED <<num_threads, N, osThrows, batch_i, formatter, futures,
                   status, chunk, sink, osState, lastSrc, misuse, entered,
                   raised, error>>
    /\ UNCHANGED <<polled, polledReady, submits, retrieved>>

\* Variant: no replacement is started when the finished chunk has failed.
RefillCheckOnlyOk ==
    /\ pc = "refill"
    /\ IF status[front(futures)] = "err"
       THEN /\ pc' = "get"
            /\ lastSrc' = lastSrc
       ELSE /\ lastSrc' = (IF has_next THEN "true" ELSE "false")
            /\ pc' = (IF has_next THEN "refill_submit" ELSE "get")
    /\ UNCHANGED <<num_threads, N, osThrows, batch_i, formatter, futures,
                   status, chunk, sink, osState, misuse, entered, raised,
                   error>>
    /\ UNCHANGED <<polled, polledReady, submits, retrieved>>

\* if (formatter.has_next())
RefillCheck ==
    /\ pc = "refill"
    /\ lastSrc' = (IF has_next THEN "true" ELSE "false")
    /\ pc' = (IF has_next THEN "refill_submit" ELSE "get")
    /\ UNCHANGED <<num_threads, N, osThrows, batch_i, formatter, futures,
                   status, chunk, sink, osState, misuse, entered, raised,
                   error>>
    /\ UNCHANGED <<polled, polledReady, submits, retrieved>>

\* Variant: the refill is a while loop, not an if.
RefillSubmitLoop ==
    /\ pc = "refill_submit"
    /\ SubmitNext
    /\ pc' = "refill"
    /\ UNCHANGED <<num_threads, N, osThrows, batch_i, chunk, sink, osState,
                   entered, raised, error>>
    /\ UNCHANGED <<polled, polledReady, retrieved>>

\* futures.push(pool.submit(formatter.next_chunk(options)));
RefillSubmit ==
    /\ pc = "refill_submit"
    /\ SubmitNext
    /\ pc' = "get"
    /\ UNCHANGED <<num_threads, N, osThrows, batch_i, chunk, sink, osState,
                   entered, raised, error>>
    /\ UNCHANGED <<polled, polledReady, retrieved>>

\* Variant: the exception of a task is swallowed and the chunk is skipped.
GetSwallow ==
    /\ pc = "get"
    /\ pc' = "pop"
    /\ chunk' = (IF status[front(futures)] = "err" THEN 0 ELSE front(futures))
    /\ UNCHANGED <<num_threads, N, osThrows, batch_i, formatter, futures,
                   status, sink, osState, lastSrc, misuse, entered, raised,
                   error>>
    /\ retrieved' = [retrieved EXCEPT ![front(futures)] = @ + 1]
    /\ UNCHANGED <<polled, polledReady, submits>>

\* Variant: a failed chunk is dropped and the loop goes on with the next.
GetSkip ==
    /\ pc = "get"
    /\ IF status[front(futures)] = "err"
       THEN /\ pc' = "loop_check"
            /\ futures' = pop(futures)
            /\ chunk' = chunk
       ELSE /\ pc' = "pop"
            /\ futures' = futures
            /\ chunk' = front(futures)
    /\ UNCHANGED <<num_threads, N, osThrows, batch_i, formatter, status,
                   sink, osState, lastSrc, misuse, entered, raised, error>>
    /\ retrieved' = [retrieved EXCEPT ![front(futures)] = @ + 1]
    /\ UNCHANGED <<polled, polledReady, submits>>

\* Variant: the result is taken from the newest future, not from the front.
GetBack ==
    /\ pc = "get"
    /\ IF status[futures[Len(futures)]] = "err"
       THEN /\ pc' = "failed"
            /\ raised' = raised + 1
            /\ error' = "task"
            /\ chunk' = chunk
       ELSE /\ pc' = "pop"
            /\ chunk' = futures[Len(futures)]
            /\ UNCHANGED <<raised, error>>
    /\ UNCHANGED <<num_threads, N, osThrows, batch_i, formatter, futures,
                   status, sink, osState, lastSrc, misuse, entered>>
    /\ retrieved' = [retrieved EXCEPT ![futures[Len(futures)]] = @ + 1]
    /\ UNCHANGED <<polled, polledReady, submits>>

\* std::string chunk = futures.front().get();
\* get() returns the bytes or rethrows the exception of the task.
Get ==
    /\ pc = "get"
    /\ IF status[front(futures)] = "err"
       THEN /\ pc' = "failed"
            /\ raised' = raised + 1
            /\ error' = "task"
            /\ chunk' = chunk
       ELSE /\ pc' = "pop"
            /\ chunk' = front(futures)
            /\ UNCHANGED <<raised, error>>
    /\ UNCHANGED <<num_threads, N, osThrows, batch_i, formatter, futures,
                   status, sink, osState, lastSrc, misuse, entered>>
    /\ retrieved' = [retrieved EXCEPT ![front(futures)] = @ + 1]
    /\ UNCHANGED <<polled, polledReady, submits>>

\* futures.pop();
Pop ==
    /\ pc = "pop"
    /\ futures' = pop(futures)
    /\ pc' = "write"
    /\ UNCHANGED <<num_threads, N, osThrows, batch_i, formatter, status,
                   chunk, sink, osState, lastSrc, misuse, entered, raised,
                   error>>
    /\ UNCHANGED <<polled, polledReady, submits, retrieved>>

\* os.write(chunk.c_str(), chunk.size()) on a good stream that takes the
\* bytes.
WriteOk ==
    /\ pc = "write"
    /\ osState = "good"
    /\ sink' = Append(sink, chunk)
    /\ pc' = "loop_check"
    /\ UNCHANGED <<num_threads, N, osThrows, batch_i, formatter, futures,
                   status, chunk, osState, lastSrc, misuse, entered, raised,
                   error>>
    /\ UNCHANGED <<polled, polledReady, submits, retrieved>>

\* os.write(...) on a good stream whose buffer refuses the bytes: the stream
\* sets badbit, and throws only if the caller enabled exceptions on os.
WriteFail ==
    /\ pc = "write"
    /\ osState = "good"
    /\ osState' = "bad"
    /\ IF osThrows
       THEN /\ pc' = "failed"
            /\ raised' = raised + 1
            /\ error' = "io"
       ELSE /\ pc' = "loop_check"
            /\ UNCHANGED <<raised, error>>
    /\ UNCHANGED <<num_threads, N, osThrows, batch_i, formatter, futures,
                   status, chunk, sink, lastSrc, misuse, entered>>
    /\ UNCHANGED <<polled, polledReady, submits, retrieved>>

\* os.write(...) on a stream that is already bad: the sentry fails and no
\* byte is written.
WriteBad ==
    /\ pc = "write"
    /\ osState = "bad"
    /\ pc' = "loop_check"
    /\ UNCHANGED <<num_threads, N, osThrows, batch_i, formatter, futures,
                   status, chunk, sink, osState, lastSrc, misuse, entered,
                   raised, error>>
    /\ UNCHANGED <<polled, polledReady, submits, retrieved>>

\* Variant: a front future that is not ready is moved to the back.
YieldRotate ==
    /\ pc = "yield"
    /\ pc' = "loop_check"
    /\ futures' = Append(Tail(futures), Head(futures))
    /\ UNCHANGED <<num_threads, N, osThrows, batch_i, formatter, status,
                   chunk, sink, osState, lastSrc, misuse, entered, raised,
                   error>>
    /\ UNCHANGED <<polled, polledReady, submits, retrieved>>

\* std::this_thread::yield();
Yield ==
    /\ pc = "yield"
    /\ pc' = "loop_check"
    /\ UNCHANGED <<num_threads, N, osThrows, batch_i, formatter, futures,
                   status, chunk, sink, osState, lastSrc, misuse, entered,
                   raised, error>>
    /\ UNCHANGED <<polled, polledReady, submits, retrieved>>

Coordinator ==
    \/ PrimeCheck
    \/ PrimeSubmit
    \/ LoopCheck
    \/ IsReady
    \/ RefillCheck
    \/ RefillSubmit
    \/ Get
    \/ Pop
    \/ WriteOk
    \/ WriteFail
    \/ WriteBad
    \/ Yield

\* ---- the workers of the pool ----

Running == {i \in ChunkIds : status[i] = "running"}

\* A free worker takes a submitted task.
WorkerStart(i) ==
    /\ status[i] = "queued"
    /\ Cardinality(Running) < get_thread_count
    /\ status' = [status EXCEPT ![i] = "running"]
    /\ UNCHANGED <<num_threads, N, osThrows, pc, batch_i, formatter, futures,
                   chunk, sink, osState, lastSrc, misuse, entered, raised,
                   error>>
    /\ UNCHANGED <<polled, polledReady, submits, retrieved>>

\* The task returns its bytes: the future becomes ready with a value.
WorkerFinish(i) ==
    /\ status[i] = "running"
    /\ status' = [status EXCEPT ![i] = "ok"]
    /\ UNCHANGED <<num_threads, N, osThrows, pc, batch_i, formatter, futures,
                   chunk, sink, osState, lastSrc, misuse, entered, raised,
                   error>>
    /\ UNCHANGED <<polled, polledReady, submits, retrieved>>

\* The task throws: the future becomes ready with an exception.
WorkerThrow(i) ==
    /\ status[i] = "running"
    /\ status' = [status EXCEPT ![i] = "err"]
    /\ UNCHANGED <<num_threads, N, osThrows, pc, batch_i, formatter, futures,
                   chunk, sink, osState, lastSrc, misuse, entered, raised,
                   error>>
    /\ UNCHANGED <<polled, polledReady, submits, retrieved>>

Workers ==
    \/ \E i \in ChunkIds : WorkerStart(i)
    \/ \E i \in ChunkIds : WorkerFinish(i)
    \/ \E i \in ChunkIds : WorkerThrow(i)

Next ==
    \/ Coordinator
    \/ Workers

Spec == Init /\ [][Next]_vars

\* The coordinating thread keeps running, and the pool keeps working while
\* it has a task to take or to finish.
Fairness ==
    /\ WF_vars(Coordinator)
    /\ WF_vars(Workers)

FairSpec == Spec /\ Fairness

TypeOK ==
    /\ num_threads \in 0..MaxThreads
    /\ N \in 0..MaxChunks
    /\ pc \in {"prime_check", "prime_submit", "loop_check", "is_ready",
               "refill", "refill_submit", "get", "pop", "write", "yield", "done", "failed"}
    /\ formatter \in 0..MaxChunks
    /\ status \in [ChunkIds -> {"none", "queued", "running", "ok", "err"}]
    /\ osState \in {"good", "bad"}
    /\ raised \in 0..1
    /\ polled \in 0..MaxChunks
    /\ polledReady \in BOOLEAN
    /\ submits \in [ChunkIds -> 0..1]
    /\ retrieved \in [ChunkIds -> 0..1]

\* ---- properties ----

\* The smaller of two numbers.
Min(a, b) == IF a <= b THEN a ELSE b

\* C1: at every moment the chunks written to the sink are a prefix of the
\* chunks in the order the formatter created them, whatever the number of
\* chunks, the number of workers and the order in which the tasks finish.
C1_SinkIsPrefixInCreationOrder ==
    /\ Len(sink) <= N
    /\ \A i \in 1..Len(sink) : sink[i] = i

\* Chunk 1 is written, chunk 3 has finished while chunk 2 has not, with a
\* single worker.
C1_Witness ==
    /\ num_threads = 1
    /\ sink = <<1>>
    /\ status[3] = "ok"
    /\ status[2] \in {"queued", "running"}

\* C2: when no task fails and no write fails, at the return of
\* write_body_threads the sink holds every chunk of the formatter exactly
\* once, in creation order.
C2_AllChunksWrittenAtReturn ==
    (pc = "done" /\ osState = "good") => sink = Ids(N)

\* Five chunks and two workers: the sink holds 1,2,3,4,5 at the return.
C2_Witness ==
    /\ pc = "done"
    /\ osState = "good"
    /\ num_threads = 2
    /\ N = 5
    /\ sink = <<1, 2, 3, 4, 5>>

\* C3: if the task of chunk k fails and those of chunks 1..k-1 succeed
\* (every write succeeding), then once write_body_threads has exited the
\* sink holds exactly chunks 1..k-1 in order, no chunk from k on has been
\* written, and the failure has left the function exactly once.
C3_FailureKeepsPrefix ==
    \A k \in 1..N :
        ( /\ pc \in {"done", "failed"}
          /\ osState = "good"
          /\ status[k] = "err"
          /\ \A i \in 1..(k - 1) : status[i] = "ok" )
        => ( /\ pc = "failed"
             /\ error = "task"
             /\ raised = 1
             /\ sink = Ids(k - 1) )

\* Chunk 3 of at least 4 failed after chunks 1 and 2 were written.
C3_Witness ==
    /\ pc = "failed"
    /\ error = "task"
    /\ N >= 4
    /\ status[3] = "err"
    /\ sink = <<1, 2>>

\* C4 as stated: the queue of outstanding futures never holds more than
\* 3 x worker count entries.
C4_Original == Len(futures) <= inflight_count

\* C4 as amended: the queue never holds more than 3 x worker count + 1
\* futures; it holds more than 3 x worker count only between the refill push
\* and the pop of the finished front future; and the futures in it whose
\* task has not finished are never more than 3 x worker count.
C4_WindowBound ==
    /\ Len(futures) <= inflight_count + 1
    /\ pc \notin {"get", "pop", "failed"} => Len(futures) <= inflight_count
    /\ Len(futures) > inflight_count => is_ready(front(futures))
    /\ Cardinality({i \in 1..Len(futures) : ~is_ready(futures[i])})
           <= inflight_count

\* The refill has pushed and the front has not been popped yet.
C4_Witness ==
    /\ pc = "pop"
    /\ Len(futures) = inflight_count + 1

\* C5: write_body_threads returns normally only with an empty queue and a
\* formatter that has no further chunk.
C5_NormalReturnMeansExhausted ==
    pc = "done" => (empty(futures) /\ ~has_next /\ raised = 0)

\* A normal return of a run with more chunks than the window holds.
C5_Witness ==
    /\ pc = "done"
    /\ N > inflight_count
    /\ formatter = N

\* C6: when every submitted task eventually finishes, the coordinator
\* eventually terminates, normally or with the first propagated failure.
C6_Terminates == <>(pc \in {"done", "failed"})

\* The coordinator has waited on the front future and has then terminated
\* with all of several chunks handled.
C6_Witness ==
    /\ pc \in {"done", "failed"}
    /\ entered
    /\ N >= 2
    /\ Len(sink) >= 1

\* C7 as stated: a failed write leaves write_body_threads at once as an I/O
\* failure: after it the coordinator takes no further step.
C7_WriteFailureSurfaced ==
    osState = "bad" => (pc = "failed" /\ error = "io" /\ raised = 1)

\* C8: with num_threads = 0 the window is at least 1, at least one future is
\* outstanding whenever the formatter has work after priming, and a run
\* without failure ends with every chunk written.
C8_ZeroThreadsWindow ==
    num_threads = 0 =>
        /\ inflight_count >= 1
        /\ (pc \notin {"prime_check", "prime_submit"} /\ has_next)
               => ~empty(futures)
        /\ (pc = "done" /\ osState = "good") => Len(sink) = N

\* A run with num_threads = 0 that wrote all of its chunks.
C8_Witness ==
    /\ num_threads = 0
    /\ N > 0
    /\ pc = "done"
    /\ Len(sink) = N

\* C9: with a formatter that has no chunk, nothing is submitted, nothing is
\* written, the body of the while loop is never entered and the call returns
\* normally.
C9_EmptySource ==
    /\ [](N = 0 =>
            /\ pc \in {"prime_check", "loop_check", "done"}
            /\ formatter = 0
            /\ \A i \in ChunkIds : status[i] = "none"
            /\ futures = <<>>
            /\ sink = <<>>
            /\ ~entered
            /\ raised = 0)
    /\ ((N = 0) ~> (pc = "done"))

\* The call has returned for a formatter without chunks.
C9_Witness ==
    /\ N = 0
    /\ pc = "done"
    /\ lastSrc = "false"

\* C10: every next_chunk() is made by the coordinating thread right after a
\* has_next() that returned true, never when has_next() is false, and no
\* step of a worker touches the formatter.
C10_SourceProtocol ==
    [][ /\ formatter' # formatter =>
              /\ lastSrc = "true"
              /\ has_next
              /\ pc \in {"prime_submit", "refill_submit"}
              /\ formatter' = formatter + 1
              /\ lastSrc' = "next"
        /\ lastSrc' # lastSrc =>
              pc \in {"prime_check", "prime_submit", "refill",
                      "refill_submit"}
        /\ (\E i \in ChunkIds : status[i] # "none" /\ status'[i] # status[i])
              => UNCHANGED <<formatter, lastSrc>>
        /\ ~misuse' ]_vars

\* A chunk has been requested by the refill of the drain loop.
C10_Witness ==
    /\ pc = "get"
    /\ lastSrc = "next"
    /\ formatter > inflight_count

\* C11: when get() on a chunk's future rethrows the task's failure, the
\* coordinator stops right there: the failing future is neither polled again
\* nor dropped in favour of a later one, and from then on nothing is
\* submitted to the pool and nothing is written to the sink.
C11_AbortAtFailure ==
    [][ /\ (pc = "get" /\ status[Head(futures)] = "err" /\ pc' # pc) =>
              /\ pc' = "failed"
              /\ error' = "task"
              /\ UNCHANGED <<futures, formatter, sink, submits, polled>>
        /\ pc = "failed" =>
              UNCHANGED <<pc, futures, formatter, sink, submits, retrieved,
                          polled, chunk, raised, error>>
        /\ \A i \in ChunkIds :
              (status[i] = "err" /\ retrieved[i] = 1) =>
                  /\ retrieved'[i] = 1
                  /\ \A j \in 1..Len(sink') : sink'[j] < i ]_vars

\* The task of chunk 2 failed, its future was retrieved, and a worker went
\* on with a later chunk after the call had been left.
C11_Witness ==
    /\ pc = "failed"
    /\ error = "task"
    /\ retrieved[2] = 1
    /\ status[2] = "err"
    /\ sink = <<1>>
    /\ formatter >= 4
    /\ \E i \in 3..MaxChunks : status[i] \in {"running", "ok", "err"}

\* C12 as stated: in every state, with c chunks written, the i-th entry of
\* the queue is the future of chunk c + i.
C12_Original ==
    \A i \in 1..Len(futures) : futures[i] = Len(sink) + i

\* C12 as amended: in every state the queue holds the futures of consecutive
\* chunks in creation order, ending with the chunk created last: with p
\* futures popped so far (chunks created minus queue length), the i-th entry
\* is the future of chunk p + i; the chunks written are among 1..p, and p is
\* the number of chunks handed to os.write plus one between the pop of a
\* future and the write of its bytes; futures are only pushed at the back
\* and popped at the front.
C12_QueueIsConsecutive ==
    /\ [](LET p == formatter - Len(futures) IN
            /\ p >= 0
            /\ \A i \in 1..Len(futures) : futures[i] = p + i
            /\ \A j \in 1..Len(sink) : sink[j] <= p
            /\ Len(sink) <= p
            /\ Cardinality({i \in ChunkIds : retrieved[i] = 1})
                   \in {p, p + 1})
    /\ [][ futures' # futures =>
              \/ futures' = Append(futures, formatter + 1)
              \/ (futures # <<>> /\ futures' = Tail(futures)) ]_vars

\* Two chunks written, the third popped and not yet written, the queue holds
\* chunks 4, 5, 6.
C12_Witness ==
    /\ pc = "write"
    /\ sink = <<1, 2>>
    /\ chunk = 3
    /\ futures = <<4, 5, 6>>

\* C13: get() is called on a future only after the latest is_ready call was
\* made on that same future and returned true, so the task of a future
\* being retrieved has always finished.
C13_GetOnlyAfterReady ==
    [][ retrieved' # retrieved =>
          /\ futures # <<>>
          /\ retrieved' = [retrieved EXCEPT ![Head(futures)] = @ + 1]
          /\ polled = Head(futures)
          /\ polledReady
          /\ status[Head(futures)] \in {"ok", "err"} ]_vars

\* The fourth chunk, submitted by a refill, has been found ready and has
\* been retrieved.
C13_Witness ==
    /\ pc = "pop"
    /\ polled = 4
    /\ polledReady
    /\ retrieved[4] = 1
    /\ Head(futures) = 4
    /\ inflight_count = 3

\* C14: when the front future is not ready the coordinator only yields: the
\* queue, the formatter and the sink stay as they are, nothing is submitted
\* or retrieved, and the next future passed to is_ready is the same front;
\* is_ready and get() are only ever applied to the front of the queue, also
\* when futures behind it are ready.
C14_NotReadyOnlyYields ==
    [][ /\ (pc = "is_ready" /\ status[Head(futures)] \notin {"ok", "err"}
               /\ pc' # pc) =>
              /\ pc' = "yield"
              /\ polled' = Head(futures)
              /\ ~polledReady'
              /\ UNCHANGED <<futures, formatter, sink, submits, retrieved,
                             lastSrc, chunk, osState>>
        /\ (pc = "yield" /\ pc' # pc) =>
              /\ pc' = "loop_check"
              /\ UNCHANGED <<futures, formatter, sink, submits, retrieved,
                             lastSrc, chunk, osState, polled, polledReady>>
        /\ (pc = "loop_check" /\ polled # 0 /\ ~polledReady /\ pc' # pc) =>
              /\ pc' = "is_ready"
              /\ Head(futures) = polled
              /\ UNCHANGED <<futures, formatter, sink, submits, retrieved,
                             lastSrc, chunk, osState, polled, polledReady>>
        /\ (polled' # polled \/ polledReady' # polledReady) =>
              (pc = "is_ready" /\ polled' = Head(futures))
        /\ \A i \in ChunkIds :
              retrieved'[i] # retrieved[i] => i = Head(futures) ]_vars

\* The coordinator yields on a front future that is still running while the
\* future behind it is ready and untouched.
C14_Witness ==
    /\ pc = "yield"
    /\ Len(futures) >= 2
    /\ polled = Head(futures)
    /\ ~polledReady
    /\ status[Head(futures)] = "running"
    /\ status[futures[2]] = "ok"
    /\ retrieved[futures[2]] = 0
    /\ Len(sink) >= 1

\* C15: on a ready front future the refill pushes the next chunk's future at
\* the back while the front is still in the queue and not yet retrieved, and
\* the front is popped only after the formatter has been asked; so whenever
\* the loop condition is checked (and until the refill) while the formatter
\* still has work, the queue holds exactly inflight_count futures.
C15_WindowStaysFull ==
    /\ []((pc \in {"loop_check", "is_ready", "yield", "refill"} /\ has_next)
              => Len(futures) = inflight_count)
    /\ [][ /\ (pc = "refill_submit" /\ pc' # pc) =>
                 /\ futures' = Append(futures, formatter + 1)
                 /\ Head(futures') = polled
                 /\ polledReady
                 /\ retrieved[polled] = 0
           /\ (futures # <<>> /\ futures' = Tail(futures)) =>
                 /\ lastSrc \in {"next", "false"}
                 /\ lastSrc = "false" => ~has_next
                 /\ has_next' => Len(futures') = inflight_count ]_vars

\* The loop condition is checked after a write, the formatter has more
\* chunks and the queue is full.
C15_Witness ==
    /\ pc = "loop_check"
    /\ Len(sink) >= 1
    /\ has_next
    /\ Len(futures) = inflight_count
    /\ polledReady

\* C16: during priming the queue holds the futures of chunks 1..batch_i in
\* creation order and a chunk is requested only while batch_i is below both
\* the window and the number of chunks; when priming ends, before any
\* is_ready call or write, exactly min(inflight_count, N) chunks have been
\* created and submitted once each.
C16_PrimingFillsWindow ==
    LET m == Min(inflight_count, N) IN
    /\ pc \in {"prime_check", "prime_submit"} =>
          /\ batch_i <= m
          /\ pc = "prime_submit" => batch_i < m
          /\ formatter = batch_i
          /\ futures = Ids(batch_i)
          /\ sink = <<>>
          /\ polled = 0
    /\ (pc = "loop_check" /\ ~entered) =>
          /\ batch_i = m
          /\ formatter = m
          /\ futures = Ids(m)
          /\ submits = [i \in ChunkIds |-> IF i <= m THEN 1 ELSE 0]
          /\ \A i \in ChunkIds : (status[i] # "none") <=> (i <= m)
          /\ \A i \in ChunkIds : retrieved[i] = 0
          /\ sink = <<>>
          /\ polled = 0

\* Priming has ended on a full window with chunks left in the formatter,
\* and a worker has already finished one of the submitted tasks.
C16_Witness ==
    /\ pc = "loop_check"
    /\ ~entered
    /\ N > inflight_count
    /\ Len(futures) = inflight_count
    /\ \E i \in ChunkIds : status[i] = "ok"

\* C17: every chunk created by the formatter is submitted exactly once and
\* has exactly one future, held in the queue until it is retrieved; get() is
\* called at most once on a future, and exactly once on each in a run that
\* returns normally; a retrieved future is still in the queue only at the
\* front, until the pop that is the coordinator's next statement (or the
\* exit of the call when get() has thrown).
C17_OneHandleOneRetrieval ==
    \A i \in ChunkIds :
        LET inQueue == {k \in 1..Len(futures) : futures[k] = i} IN
        /\ submits[i] = (IF i <= formatter THEN 1 ELSE 0)
        /\ (status[i] # "none") <=> (submits[i] = 1)
        /\ Cardinality(inQueue) <= 1
        /\ retrieved[i] <= submits[i]
        /\ (submits[i] = 1 /\ retrieved[i] = 0) => inQueue # {}
        /\ pc = "done" => retrieved[i] = submits[i]
        /\ (retrieved[i] = 1 /\ inQueue # {}) =>
              /\ inQueue = {1}
              /\ pc \in {"pop", "failed"}
              /\ pc = "failed" => (error = "task" /\ status[i] = "err")

\* A normal return of a run with more chunks than the window: every chunk
\* was submitted once and retrieved once.
C17_Witness ==
    /\ pc = "done"
    /\ N > inflight_count
    /\ \A i \in 1..N : submits[i] = 1 /\ retrieved[i] = 1
    /\ \A i \in (N + 1)..MaxChunks : submits[i] = 0 /\ retrieved[i] = 0

\* C18 as stated: whenever the condition of the drain loop is checked (the
\* end of priming included), the number of chunks created by the formatter
\* equals the number of chunks written to the sink plus the length of the
\* queue.
C18_Conservation ==
    pc = "loop_check" => formatter = Len(sink) + Len(futures)

\* C19: the queue never holds more than inflight_count + 1 futures; it holds
\* inflight_count + 1 only after the refill has pushed and before the ready
\* front is popped, within one pass of the loop body; whenever the loop
\* condition is checked it holds at most inflight_count.
C19_QueueLengthBound ==
    /\ Len(futures) <= inflight_count + 1
    /\ Len(futures) = inflight_count + 1 =>
          /\ pc \in {"get", "pop", "failed"}
          /\ pc = "failed" => error = "task"
          /\ lastSrc = "next"
          /\ futures[Len(futures)] = formatter
          /\ polled = Head(futures)
          /\ polledReady
    /\ pc \in {"prime_check", "prime_submit", "loop_check", "is_ready",
               "yield", "refill", "refill_submit", "write", "done"}
          => Len(futures) <= inflight_count

\* The refill has just pushed onto a full queue and the front has not been
\* retrieved yet.
C19_Witness ==
    /\ pc = "get"
    /\ Len(futures) = inflight_count + 1
    /\ retrieved[Head(futures)] = 0
    /\ Len(sink) >= 1

\* C20: the refill on a ready front future does not depend on whether the
\* future holds bytes or a failure: the formatter is asked in either case,
\* and when the failure of chunk k (chunks 1..k-1 having succeeded) leaves
\* the call, exactly min(N, inflight_count + k) chunks have been created and
\* submitted.
C20_RefillBeforeFailure ==
    /\ [](pc = "refill_submit" => lastSrc = "true")
    /\ []((pc = "failed" /\ error = "task") =>
            LET k == Head(futures) IN
            /\ status[k] = "err"
            /\ \A i \in 1..(k - 1) : status[i] = "ok"
            /\ formatter = Min(N, inflight_count + k)
            /\ \A i \in ChunkIds :
                  submits[i] = (IF i <= Min(N, inflight_count + k)
                                THEN 1 ELSE 0))
    /\ [][ (pc = "refill" /\ pc' # pc) =>
              /\ lastSrc' = (IF has_next THEN "true" ELSE "false")
              /\ pc' = (IF has_next THEN "refill_submit" ELSE "get") ]_vars

\* Chunk 2 failed with a window of 3 and chunks left in the formatter: 5
\* chunks have been created when the failure leaves the call.
C20_Witness ==
    /\ pc = "failed"
    /\ error = "task"
    /\ inflight_count = 3
    /\ Head(futures) = 2
    /\ formatter = 5
    /\ N = 6
====
